---- MODULE Spec2Model ----
(***************************************************************************)
(* Model of organize (src/main.rs): the time bucketer computed inside      *)
(* organize_file, the forward pass organize, and the reverse pass          *)
(* reverse_organize / reverse_organize_dir, run as tasks of one LocalSet. *)
(***************************************************************************)
EXTENDS Integers, Sequences, FiniteSets, TLC

VARIABLES
    zone,       \* the Local time zone of the process (chrono::Local)
    modified,   \* bucketer run: the modification time handed to the bucketer (UTC hours)
    bucket,     \* bucketer run: the three folder names computed, <<>> before
    dirs,       \* file system: the set of directories (paths relative to the root)
    files,      \* file system: path of each regular file |-> the file's identity
    mtime,      \* file system: file identity |-> modification time (UTC hours)
    op,         \* the operation main() is running: "idle", "organize", "reverse"
    result,     \* "idle", "running", "ok" once the call returned, "panic" once it panicked
    tasks,      \* the tasks of the LocalSet: path |-> task record
    history,    \* the calls main() made so far, each with the tree it was made on
    faults      \* how many more I/O calls the environment may fail

vars == <<zone, modified, bucket, dirs, files, mtime, op, result, tasks,
          history, faults>>

-----------------------------------------------------------------------------
(* Calendar: chrono's proleptic Gregorian calendar over days since 1970-01-01. *)

\* days since 1970-01-01 of the civil date y-m-d
DaysFromCivil(y, m, d) ==
    LET yy  == IF m <= 2 THEN y - 1 ELSE y
        era == yy \div 400
        yoe == yy - era * 400
        mp  == IF m > 2 THEN m - 3 ELSE m + 9
        doy == (153 * mp + 2) \div 5 + d - 1
        doe == yoe * 365 + yoe \div 4 - yoe \div 100 + doy
    IN  era * 146097 + doe - 719468

\* the civil date [y, m, d] of a day number (Datelike::year, month, day)
CivilFromDays(z) ==
    LET zz  == z + 719468
        era == zz \div 146097
        doe == zz - era * 146097
        yoe == (doe - doe \div 1460 + doe \div 36524 - doe \div 146096) \div 365
        doy == doe - (365 * yoe + yoe \div 4 - yoe \div 100)
        mp  == (5 * doy + 2) \div 153
        dd  == doy - (153 * mp + 2) \div 5 + 1
        mm  == IF mp < 10 THEN mp + 3 ELSE mp - 9
        yy  == yoe + era * 400 + (IF mm <= 2 THEN 1 ELSE 0)
    IN  [y |-> yy, m |-> mm, d |-> dd]

\* Weekday::num_days_from_sunday of a day number: 0 = Sunday .. 6 = Saturday
NumDaysFromSunday(z) == (z + 4) % 7

HoursPerDay == 24

\* The zones Local may be: UTC, and US Eastern time of 2024 (UTC-5, daylight
\* saving time from 2024-03-10 07:00 UTC to 2024-11-03 06:00 UTC).
ZoneUTC == [std |-> 0, dstFrom |-> 0, dstTo |-> 0]
ZoneEastern ==
    [std |-> -5,
     dstFrom |-> DaysFromCivil(2024, 3, 10) * HoursPerDay + 7,
     dstTo |-> DaysFromCivil(2024, 11, 3) * HoursPerDay + 6]
Zones == {ZoneUTC, ZoneEastern}

\* the offset from UTC, in hours, that zone z applies at the instant h
UtcOffset(z, h) == z.std + (IF z.dstFrom <= h /\ h < z.dstTo THEN 1 ELSE 0)

\* DateTime<Local>::from(SystemTime): the local day number of the instant h
LocalDay(z, h) == (h + UtcOffset(z, h)) \div HoursPerDay

-----------------------------------------------------------------------------
(* The time bucketer: organize_file, lines 55-72.                          *)

MonthNames ==
    <<"January", "February", "March", "April", "May", "June", "July",
      "August", "September", "October", "November", "December">>

Pad2(n) == IF n < 10 THEN "0" \o ToString(n) ELSE ToString(n)

\* format("%Y-%m-%d") of a day number
FormatYMD(day) ==
    LET c == CivilFromDays(day)
    IN  ToString(c.y) \o "-" \o Pad2(c.m) \o "-" \o Pad2(c.d)

\* let days_since_sunday = match weekday { Sun => 0, _ => num_days_from_sunday }
DaysSinceSunday(z, h) ==
    LET wd == NumDaysFromSunday(LocalDay(z, h))
    IN  IF wd = 0 THEN 0 ELSE wd

\* datetime - Duration::days(days_since_sunday): DateTime<Tz> - Duration
\* subtracts the seconds from the UTC instant
PreviousSunday(z, h) == h - DaysSinceSunday(z, h) * HoursPerDay

\* the local day number the week folder is named after
WeekStartDay(z, h) == LocalDay(z, PreviousSunday(z, h))

\* the month name taken from the computed Sunday instead of the file's date
MonthFolderOfSunday(z, h) == MonthNames[CivilFromDays(WeekStartDay(z, h)).m]

\* datetime.year().to_string()
YearFolder(z, h) == ToString(CivilFromDays(LocalDay(z, h)).y)

\* datetime.format("%B")
MonthFolder(z, h) == MonthNames[CivilFromDays(LocalDay(z, h)).m]

\* format!("week of {}", previous_sunday.format("%Y-%m-%d"))
WeekFolder(z, h) == "week of " \o FormatYMD(WeekStartDay(z, h))

\* the three folder names of a modification time, outermost first
Bucket(z, h) == <<YearFolder(z, h), MonthFolder(z, h), WeekFolder(z, h)>>

-----------------------------------------------------------------------------
(* The file system: paths are sequences of names relative to the root.     *)

Root == <<>>
Parent(p) == SubSeq(p, 1, Len(p) - 1)
BaseName(p) == p[Len(p)]

\* Path::is_file / Path::is_dir on the current file system
IsFile(p) == p \in DOMAIN files
IsDir(p) == p \in dirs

\* the names directly under directory d
Children(d) ==
    {BaseName(p) : p \in {q \in dirs \cup DOMAIN files :
                              Len(q) = Len(d) + 1 /\ Parent(q) = d}}

\* fs::rename(src, dst) succeeds: the source is there, the destination's
\* folder is there, and the destination is no directory
RenameOk(src, dst) == IsFile(src) /\ IsDir(Parent(dst)) /\ ~IsDir(dst)

\* a rename that keeps the file already at the destination and drops the source
FilesAfterRenameNoReplace(src, dst) ==
    IF src = dst THEN files
    ELSE [p \in (DOMAIN files \ {src}) \cup {dst} |->
              IF p = dst /\ dst \notin DOMAIN files THEN files[src] ELSE files[p]]

\* a move that copies: the source stays where it was
FilesAfterCopy(src, dst) ==
    [p \in DOMAIN files \cup {dst} |-> IF p = dst THEN files[src] ELSE files[p]]

\* the files after a successful rename: the destination is replaced
FilesAfterRename(src, dst) ==
    IF src = dst THEN files
    ELSE [p \in (DOMAIN files \ {src}) \cup {dst} |->
              IF p = dst THEN files[src] ELSE files[p]]

-----------------------------------------------------------------------------
(* Tasks of the LocalSet. The task of the call main() awaits has id Root;  *)
(* a spawned task has the path it was spawned for as its id.               *)

NewTask(kind, pc, target) ==
    [kind |-> kind, pc |-> pc, pending |-> {}, seen |-> {}, kids |-> {},
     folders |-> <<>>, target |-> target, error |-> ""]

\* the tasks of the LocalSet still run after the awaited call panicked
RunningAfterPanic == result \in {"running", "panic"}

\* local_set.run_until(..): the tasks run while the awaited call is pending
Running == result = "running"

\* the start of the running (or last) operation, as recorded by main()
Started == Len(history) > 0
StartDirs == history[Len(history)].dirs
StartFiles == history[Len(history)].files
Spawned == DOMAIN tasks \ {Root}

\* how many calls of organize or reverse_organize one behaviour makes, one
\* after the other (the tests call organize and then reverse_organize)
MaxRuns == 2

\* how many I/O calls fail for a reason outside the tree (permissions, I/O errors)
MaxFaults == 1

\* .expect(..) fails in task t: the task panics; the panic of the awaited
\* call unwinds main(), which drops the LocalSet and every task in it
Panic(t, msg) ==
    /\ tasks' = [tasks EXCEPT ![t].pc = "panicked", ![t].error = msg]
    /\ result' = IF t = Root THEN "panic" ELSE result

\* main(): organize(&args.dir) or reverse_organize(&args.dir)
Start(o) ==
    /\ result \in {"idle", "ok"}
    /\ Len(history) < MaxRuns
    /\ op' = o
    /\ result' = "running"
    /\ tasks' = (Root :> NewTask(IF o = "organize" THEN "organize" ELSE "revdir",
                                 "open", Root))
    /\ history' = Append(history, [op |-> o, dirs |-> dirs, files |-> files,
                                   faults |-> faults])
    /\ UNCHANGED <<zone, modified, bucket, dirs, files, mtime, faults>>

\* a loop body that spawns a file task and skips directories in both passes
SpawnForFilesOnly(t, n) ==
    LET path == Append(t, n)
        kind == IF tasks[t].kind = "organize" THEN "orgfile" ELSE "revfile"
        first == IF kind = "orgfile" THEN "meta" ELSE "rename"
        listed == [tasks EXCEPT ![t].pending = @ \ {n}, ![t].seen = @ \cup {n}]
    IN  IF ~IsFile(path)
        THEN listed
        ELSE [p \in DOMAIN tasks \cup {path} |->
                 IF p = path THEN NewTask(kind, first, tasks[t].target)
                 ELSE IF p = t THEN [listed[t] EXCEPT !.kids = @ \cup {path}]
                 ELSE tasks[p]]

\* a loop body that descends into directories in both passes
SpawnForRecursive(t, n) ==
    LET path == Append(t, n)
        kind == IF IsFile(path)
                THEN (IF tasks[t].kind = "organize" THEN "orgfile" ELSE "revfile")
                ELSE IF IsDir(path) THEN tasks[t].kind ELSE "none"
        first == CASE kind = "orgfile" -> "meta"
                   [] kind = "revfile" -> "rename"
                   [] OTHER -> "open"
        listed == [tasks EXCEPT ![t].pending = @ \ {n}, ![t].seen = @ \cup {n}]
    IN  IF kind = "none"
        THEN listed
        ELSE [p \in DOMAIN tasks \cup {path} |->
                 IF p = path THEN NewTask(kind, first, tasks[t].target)
                 ELSE IF p = t THEN [listed[t] EXCEPT !.kids = @ \cup {path}]
                 ELSE tasks[p]]

\* fs::read_dir(dir).await.expect("Failed to read directory")
ReadDir(t) ==
    /\ Running
    /\ tasks[t].kind \in {"organize", "revdir"}
    /\ tasks[t].pc = "open"
    /\ \/ /\ IsDir(t)
          /\ tasks' = [tasks EXCEPT ![t].pc = "list", ![t].pending = Children(t)]
          /\ UNCHANGED <<result, faults>>
       \/ /\ ~IsDir(t) \/ faults > 0
          /\ faults' = IF IsDir(t) THEN faults - 1 ELSE faults
          /\ Panic(t, "Failed to read directory")
    /\ UNCHANGED <<zone, modified, bucket, dirs, files, mtime, op, history>>

\* a loop body that does not note the entry as returned, so that the listing
\* may return it again
SpawnForForgetful(t, n) ==
    LET path == Append(t, n)
        kind == IF tasks[t].kind = "organize"
                THEN (IF IsFile(path) THEN "orgfile" ELSE "none")
                ELSE (IF IsFile(path) THEN "revfile"
                      ELSE IF IsDir(path) THEN "revdir" ELSE "none")
        first == CASE kind = "orgfile" -> "meta"
                   [] kind = "revfile" -> "rename"
                   [] OTHER -> "open"
        listed == [tasks EXCEPT ![t].pending = @ \ {n}]
    IN  IF kind = "none"
        THEN listed
        ELSE [p \in DOMAIN tasks \cup {path} |->
                 IF p = path THEN NewTask(kind, first, tasks[t].target)
                 ELSE IF p = t THEN [listed[t] EXCEPT !.kids = @ \cup {path}]
                 ELSE tasks[p]]

\* a loop body that hands the sub-directory itself to the call for it as
\* its target: reverse_organize_dir(path, path)
SpawnForOwnTarget(t, n) ==
    LET path == Append(t, n)
        kind == IF tasks[t].kind = "organize"
                THEN (IF IsFile(path) THEN "orgfile" ELSE "none")
                ELSE (IF IsFile(path) THEN "revfile"
                      ELSE IF IsDir(path) THEN "revdir" ELSE "none")
        first == CASE kind = "orgfile" -> "meta"
                   [] kind = "revfile" -> "rename"
                   [] OTHER -> "open"
        listed == [tasks EXCEPT ![t].pending = @ \ {n}, ![t].seen = @ \cup {n}]
    IN  IF kind = "none"
        THEN listed
        ELSE [p \in DOMAIN tasks \cup {path} |->
                 IF p = path
                 THEN NewTask(kind, first,
                              IF kind = "revdir" THEN path ELSE tasks[t].target)
                 ELSE IF p = t THEN [listed[t] EXCEPT !.kids = @ \cup {path}]
                 ELSE tasks[p]]

\* the body of the while-let loop for the entry named n of directory t
SpawnFor(t, n) ==
    LET path == Append(t, n)
        kind == IF tasks[t].kind = "organize"
                THEN (IF IsFile(path) THEN "orgfile" ELSE "none")
                ELSE (IF IsFile(path) THEN "revfile"
                      ELSE IF IsDir(path) THEN "revdir" ELSE "none")
        first == CASE kind = "orgfile" -> "meta"
                   [] kind = "revfile" -> "rename"
                   [] OTHER -> "open"
        listed == [tasks EXCEPT ![t].pending = @ \ {n}, ![t].seen = @ \cup {n}]
    IN  IF kind = "none"
        THEN listed
        ELSE [p \in DOMAIN tasks \cup {path} |->
                 IF p = path THEN NewTask(kind, first, tasks[t].target)
                 ELSE IF p = t THEN [listed[t] EXCEPT !.kids = @ \cup {path}]
                 ELSE tasks[p]]

\* entries.next_entry().await.expect("Failed to read entry"): an entry
\* listed when the directory was opened, or one added to it since, each at
\* most once; None once every entry listed at the opening was returned
NextEntry(t) ==
    /\ Running
    /\ tasks[t].kind \in {"organize", "revdir"}
    /\ tasks[t].pc = "list"
    /\ \/ /\ \E n \in tasks[t].pending \cup (Children(t) \ tasks[t].seen) :
                tasks' = SpawnFor(t, n)
          /\ UNCHANGED <<result, faults>>
       \/ /\ tasks[t].pending = {}
          /\ tasks' = [tasks EXCEPT ![t].pc = "join", ![t].seen = {}]
          /\ UNCHANGED <<result, faults>>
       \/ /\ faults > 0
          /\ faults' = faults - 1
          /\ Panic(t, "Failed to read entry")
    /\ UNCHANGED <<zone, modified, bucket, dirs, files, mtime, op, history>>

\* a join that takes the first result with tasks.next().await.expect(..),
\* which panics when no task was spawned
JoinNextUnwrap(t) ==
    /\ Running
    /\ tasks[t].kind \in {"organize", "revdir"}
    /\ tasks[t].pc = "join"
    /\ \/ /\ \/ tasks[t].kids = {}
             \/ \E k \in tasks[t].kids : tasks[k].pc = "panicked"
          /\ Panic(t, "Task failed")
       \/ /\ tasks[t].kids # {}
          /\ \A k \in tasks[t].kids : tasks[k].pc = "done"
          /\ tasks' = [tasks EXCEPT ![t].pc = "done"]
          /\ result' = IF t = Root THEN "ok" ELSE result
    /\ UNCHANGED <<zone, modified, bucket, dirs, files, mtime, op, history, faults>>

\* a join that drops the result of each task: while let Some(_) = tasks.next().await {}
JoinNextIgnoresFailure(t) ==
    /\ Running
    /\ tasks[t].kind \in {"organize", "revdir"}
    /\ tasks[t].pc = "join"
    /\ \A k \in tasks[t].kids : tasks[k].pc \in {"done", "panicked"}
    /\ tasks' = [tasks EXCEPT ![t].pc = "done"]
    /\ result' = IF t = Root THEN "ok" ELSE result
    /\ UNCHANGED <<zone, modified, bucket, dirs, files, mtime, op, history, faults>>

\* a join that awaits one task only: if let Some(task) = tasks.next().await
JoinNextFirstOnly(t) ==
    /\ Running
    /\ tasks[t].kind \in {"organize", "revdir"}
    /\ tasks[t].pc = "join"
    /\ \/ /\ \E k \in tasks[t].kids : tasks[k].pc = "panicked"
          /\ Panic(t, "Task failed")
       \/ /\ tasks[t].kids = {} \/ \E k \in tasks[t].kids : tasks[k].pc = "done"
          /\ tasks' = [tasks EXCEPT ![t].pc = "done"]
          /\ result' = IF t = Root THEN "ok" ELSE result
    /\ UNCHANGED <<zone, modified, bucket, dirs, files, mtime, op, history, faults>>

\* while let Some(task) = tasks.next().await { task.expect("Task failed") }:
\* the loop panics at the first spawned task that ended by a panic, and
\* ends once every spawned task has ended
JoinNext(t) ==
    /\ Running
    /\ tasks[t].kind \in {"organize", "revdir"}
    /\ tasks[t].pc = "join"
    /\ \/ /\ \E k \in tasks[t].kids : tasks[k].pc = "panicked"
          /\ Panic(t, "Task failed")
       \/ /\ \A k \in tasks[t].kids : tasks[k].pc = "done"
          /\ tasks' = [tasks EXCEPT ![t].pc = "done"]
          /\ result' = IF t = Root THEN "ok" ELSE result
    /\ UNCHANGED <<zone, modified, bucket, dirs, files, mtime, op, history, faults>>

\* a metadata read that panics when it fails: fs::metadata(..).await.expect(..)
MetadataExpect(t) ==
    /\ Running
    /\ tasks[t].kind = "orgfile"
    /\ tasks[t].pc = "meta"
    /\ \/ /\ IsFile(t)
          /\ tasks' = [tasks EXCEPT ![t].pc = "mkdir",
                          ![t].folders = Bucket(zone, mtime[files[t]])]
          /\ UNCHANGED <<result, faults>>
       \/ /\ ~IsFile(t) \/ faults > 0
          /\ faults' = IF IsFile(t) THEN faults - 1 ELSE faults
          /\ Panic(t, "Failed to read metadata")
    /\ UNCHANGED <<zone, modified, bucket, dirs, files, mtime, op, history>>

\* if let Ok(metadata) = fs::metadata(&file_path).await, and the bucket
\* computed from metadata.modified(); the task ends when the read fails
Metadata(t) ==
    /\ Running
    /\ tasks[t].kind = "orgfile"
    /\ tasks[t].pc = "meta"
    /\ \/ /\ IsFile(t)
          /\ tasks' = [tasks EXCEPT ![t].pc = "mkdir",
                          ![t].folders = Bucket(zone, mtime[files[t]])]
          /\ UNCHANGED faults
       \/ /\ ~IsFile(t) \/ faults > 0
          /\ faults' = IF IsFile(t) THEN faults - 1 ELSE faults
          /\ tasks' = [tasks EXCEPT ![t].pc = "done"]
    /\ UNCHANGED <<zone, modified, bucket, dirs, files, mtime, op, result, history>>

\* the month folder taken for the week folder: the last join left out
MonthFolderOf(t) == Parent(t) \o SubSeq(tasks[t].folders, 1, 2)

\* the week folder of task t: file_path.parent().join(year).join(month).join(week)
WeekFolderOf(t) == Parent(t) \o tasks[t].folders

\* the prefixes of the week folder that are no directory yet, by length
MissingFolders(t) ==
    {i \in 1..Len(tasks[t].folders) :
        ~IsDir(Parent(t) \o SubSeq(tasks[t].folders, 1, i))}

\* a folder creation with fs::create_dir for each missing folder, which fails
\* on a folder that is already there when the task comes to it
CreateDirStrict(t) ==
    /\ Running
    /\ tasks[t].kind = "orgfile"
    /\ tasks[t].pc = "mkdir"
    /\ LET miss == MissingFolders(t)
           i == CHOOSE j \in miss : \A k \in miss : j <= k
           d == Parent(t) \o SubSeq(tasks[t].folders, 1, i)
       IN  \/ /\ miss # {}
              /\ ~IsFile(d)
              /\ dirs' = dirs \cup {d}
              /\ tasks' = [tasks EXCEPT ![t].pc =
                              IF miss = {i} THEN "rename" ELSE "mkdir"]
              /\ UNCHANGED <<result, faults>>
           \/ /\ miss = {} \/ (miss # {} /\ IsFile(d)) \/ faults > 0
              /\ faults' = IF miss = {} THEN faults
                            ELSE IF IsFile(d) THEN faults ELSE faults - 1
              /\ Panic(t, "Failed to create folder")
              /\ UNCHANGED dirs
    /\ UNCHANGED <<zone, modified, bucket, files, mtime, op, history>>

\* fs::create_dir_all(&week_folder).await.expect("Failed to create folder"):
\* one step makes the outermost missing folder; a folder that another task
\* made in the meantime is accepted
CreateDirAll(t) ==
    /\ Running
    /\ tasks[t].kind = "orgfile"
    /\ tasks[t].pc = "mkdir"
    /\ LET miss == MissingFolders(t)
           i == CHOOSE j \in miss : \A k \in miss : j <= k
           d == Parent(t) \o SubSeq(tasks[t].folders, 1, i)
       IN  \/ /\ miss = {}
              /\ tasks' = [tasks EXCEPT ![t].pc = "rename"]
              /\ UNCHANGED <<dirs, result, faults>>
           \/ /\ miss # {}
              /\ ~IsFile(d)
              /\ dirs' = dirs \cup {d}
              /\ tasks' = [tasks EXCEPT ![t].pc =
                              IF miss = {i} THEN "rename" ELSE "mkdir"]
              /\ UNCHANGED <<result, faults>>
           \/ /\ (miss # {} /\ IsFile(d)) \/ faults > 0
              /\ faults' = IF miss # {} /\ IsFile(d) THEN faults ELSE faults - 1
              /\ Panic(t, "Failed to create folder")
              /\ UNCHANGED dirs
    /\ UNCHANGED <<zone, modified, bucket, files, mtime, op, history>>

\* a reverse move that lifts the file one folder up instead of into the target
DestinationOneUp(t) ==
    IF tasks[t].kind = "orgfile"
    THEN Append(WeekFolderOf(t), BaseName(t))
    ELSE Append(Parent(Parent(t)), BaseName(t))

\* the destination of the move task t makes
Destination(t) ==
    IF tasks[t].kind = "orgfile"
    THEN Append(WeekFolderOf(t), BaseName(t))
    ELSE Append(tasks[t].target, BaseName(t))

\* a reverse move that also removes the folder it emptied
RenameFileAndPrune(t) ==
    /\ Running
    /\ tasks[t].kind \in {"orgfile", "revfile"}
    /\ tasks[t].pc = "rename"
    /\ \/ /\ RenameOk(t, Destination(t))
          /\ files' = FilesAfterRename(t, Destination(t))
          /\ dirs' = IF tasks[t].kind = "revfile" /\ Children(Parent(t)) = {BaseName(t)}
                         /\ Parent(t) # Root
                      THEN dirs \ {Parent(t)} ELSE dirs
          /\ tasks' = [tasks EXCEPT ![t].pc = "done"]
          /\ UNCHANGED <<result, faults>>
       \/ /\ ~RenameOk(t, Destination(t)) \/ faults > 0
          /\ faults' = IF RenameOk(t, Destination(t)) THEN faults - 1 ELSE faults
          /\ Panic(t, "Failed to move file")
          /\ UNCHANGED <<files, dirs>>
    /\ UNCHANGED <<zone, modified, bucket, mtime, op, history>>

\* a move in two parts, unlink of the source and then link of the
\* destination: when it fails the source is gone already
RenameFileInTwoParts(t) ==
    /\ Running
    /\ tasks[t].kind \in {"orgfile", "revfile"}
    /\ tasks[t].pc = "rename"
    /\ \/ /\ RenameOk(t, Destination(t))
          /\ files' = FilesAfterRename(t, Destination(t))
          /\ tasks' = [tasks EXCEPT ![t].pc = "done"]
          /\ UNCHANGED <<result, faults>>
       \/ /\ ~RenameOk(t, Destination(t)) \/ faults > 0
          /\ faults' = IF RenameOk(t, Destination(t)) THEN faults - 1 ELSE faults
          /\ Panic(t, "Failed to move file")
          /\ files' = [p \in DOMAIN files \ {t} |-> files[p]]
    /\ UNCHANGED <<zone, modified, bucket, dirs, mtime, op, history>>

\* fs::rename(&path, &new_file_path).await.expect("Failed to move file"),
\* of organize_file and of the file task of reverse_organize_dir
RenameFile(t) ==
    /\ Running
    /\ tasks[t].kind \in {"orgfile", "revfile"}
    /\ tasks[t].pc = "rename"
    /\ \/ /\ RenameOk(t, Destination(t))
          /\ files' = FilesAfterRename(t, Destination(t))
          /\ tasks' = [tasks EXCEPT ![t].pc = "done"]
          /\ UNCHANGED <<result, faults>>
       \/ /\ ~RenameOk(t, Destination(t)) \/ faults > 0
          /\ faults' = IF RenameOk(t, Destination(t)) THEN faults - 1 ELSE faults
          /\ Panic(t, "Failed to move file")
          /\ UNCHANGED files
    /\ UNCHANGED <<zone, modified, bucket, dirs, mtime, op, history>>

-----------------------------------------------------------------------------
(* Initial states and the two specifications.                              *)

\* the window of modification times the bucketer is run on (UTC hours)
WindowDays == 80
FirstTime == DaysFromCivil(2023, 12, 28) * HoursPerDay
BucketTimes == FirstTime .. (FirstTime + WindowDays * HoursPerDay - 1)

\* the modification times of the files of a tree: now, one day and seven
\* days later, as create_test_file sets them
BaseTime == DaysFromCivil(2024, 1, 3) * HoursPerDay + 17
DayOffsets == {0, 1, 7}
MTimes == {BaseTime + d * HoursPerDay : d \in DayOffsets}

Ops == {"organize", "reverse"}

\* the proper prefixes of a path, the root included
Ancestors(p) == {SubSeq(p, 1, i) : i \in 0..(Len(p) - 1)}

\* where the file that is not directly under the root may be at the start:
\* in a sub-directory, or in the week folder an earlier run put it in
NestedPlaces(z) == {<<"subdir", "a">>, Append(Bucket(z, BaseTime), "a")}

\* the tree at the start, of at most two files: "a" (f1, modified at BaseTime)
\* and "b" (f2, modified later) directly under the root or absent, and f3
\* nested or absent
InitFileSystem ==
    \E ra \in SUBSET {"a", "b"} :
    \E mb \in MTimes \ {BaseTime} :
    \E nested \in {<<>>} \cup NestedPlaces(zone) :
        /\ "b" \notin ra => mb = BaseTime + HoursPerDay
        /\ ra = {"a", "b"} => nested = <<>>
        /\ dirs = {Root} \cup Ancestors(nested)
        /\ files = [p \in {<<n>> : n \in ra}
                          \cup (IF nested # <<>> THEN {nested} ELSE {}) |->
                       IF p = <<"a">> THEN "f1"
                       ELSE IF p = <<"b">> THEN "f2" ELSE "f3"]
        /\ mtime = ("f1" :> BaseTime) @@ ("f2" :> mb) @@ ("f3" :> BaseTime)

Init ==
    /\ zone = ZoneEastern
    /\ modified = 0
    /\ bucket = <<>>
    /\ InitFileSystem
    /\ op = "idle"
    /\ result = "idle"
    /\ tasks = <<>>
    /\ history = <<>>
    /\ faults = MaxFaults

\* one step of main() or of one task of the LocalSet
StartStep == \E o \in Ops : Start(o)
ReadDirStep == \E t \in DOMAIN tasks : ReadDir(t)
NextEntryStep == \E t \in DOMAIN tasks : NextEntry(t)
JoinNextStep == \E t \in DOMAIN tasks : JoinNext(t)
MetadataStep == \E t \in DOMAIN tasks : Metadata(t)
CreateDirAllStep == \E t \in DOMAIN tasks : CreateDirAll(t)
RenameFileStep == \E t \in DOMAIN tasks : RenameFile(t)

Next ==
    \/ StartStep
    \/ ReadDirStep
    \/ NextEntryStep
    \/ JoinNextStep
    \/ MetadataStep
    \/ CreateDirAllStep
    \/ RenameFileStep

Spec == Init /\ [][Next]_vars

\* the LocalSet polls every task that can go on: a step of the awaited call
\* or of a spawned task that stays possible is taken in the end
TaskStep ==
    \/ ReadDirStep
    \/ NextEntryStep
    \/ JoinNextStep
    \/ MetadataStep
    \/ CreateDirAllStep
    \/ RenameFileStep

SpecFair == Init /\ [][Next]_vars /\ WF_vars(TaskStep)

\* the bucketer alone, run once on a modification time of the window
InitBucket ==
    /\ zone \in Zones
    /\ modified \in BucketTimes
    /\ bucket = <<>>
    /\ dirs = {Root}
    /\ files = <<>>
    /\ mtime = <<>>
    /\ op = "idle"
    /\ result = "idle"
    /\ tasks = <<>>
    /\ history = <<>>
    /\ faults = 0

ComputeBucket ==
    /\ bucket = <<>>
    /\ bucket' = Bucket(zone, modified)
    /\ UNCHANGED <<zone, modified, dirs, files, mtime, op, result, tasks,
                   history, faults>>

NextBucket == ComputeBucket

SpecBucket == InitBucket /\ [][NextBucket]_vars

-----------------------------------------------------------------------------
(* Properties of the bucketer, checked under SpecBucket.                   *)

\* the local day of the modification time handed to the bucketer
ModifiedDay == LocalDay(zone, modified)

\* the first day of the month after month m of year y
NextMonthStart(y, m) ==
    IF m = 12 THEN DaysFromCivil(y + 1, 1, 1) ELSE DaysFromCivil(y, m + 1, 1)

\* the years the window of modification times touches
WindowYears == 2023..2025

\* C5: the date in the week folder's name is a Sunday, on or before the
\* modification date and at most 6 days before it.
C5_WeekStartIsSunday ==
    bucket # <<>> =>
        \E k \in 0..6 :
            /\ NumDaysFromSunday(ModifiedDay - k) = 0
            /\ bucket[3] = "week of " \o FormatYMD(ModifiedDay - k)

\* C6: the year and month folders are the year and the full English month
\* name of the modification date itself; when the Sunday on or before that
\* date lies before the first day of that month, the week folder's name
\* shows a date before the first day of that month.
C6_MonthOfModificationDate ==
    bucket # <<>> =>
        \E y \in WindowYears, m \in 1..12 :
            /\ DaysFromCivil(y, m, 1) <= ModifiedDay
            /\ ModifiedDay < NextMonthStart(y, m)
            /\ bucket[1] = ToString(y)
            /\ bucket[2] = MonthNames[m]
            /\ ModifiedDay - NumDaysFromSunday(ModifiedDay) < DaysFromCivil(y, m, 1)
                 => \E k \in 1..7 :
                        bucket[3] = "week of "
                            \o FormatYMD(DaysFromCivil(y, m, 1) - k)

\* C6 witness: a file modified in January 2024 whose week folder is named
\* after a day of December 2023
C6_Witness ==
    /\ bucket = <<"2024", "January", "week of 2023-12-31">>
    /\ CivilFromDays(ModifiedDay).d = 3

-----------------------------------------------------------------------------
(* Properties of organize and reverse_organize, checked under Spec.        *)

\* the files directly under the root in the file map f
RootLevel(f) == {p \in DOMAIN f : Len(p) = 1}

\* no two files of the file map f share a base name
DistinctBaseNames(f) ==
    \A p \in DOMAIN f, q \in DOMAIN f : BaseName(p) = BaseName(q) => p = q

\* root/<year>/<monthName>/week of <sundayDate> of the file with identity id
BucketPathOf(id) == Bucket(zone, mtime[id])

Completed(o) == op = o /\ result = "ok"

\* the per-file task of p ended at its metadata read
MetadataFailed(p) ==
    /\ p \in DOMAIN tasks
    /\ tasks[p].kind = "orgfile"
    /\ tasks[p].pc \in {"done", "panicked"}
    /\ tasks[p].folders = <<>>

\* C1: Organize run to completion on a flat root and then ReverseOrganize
\* run to completion leave exactly the original files directly under the
\* root, each under its original name, and no file anywhere else.
C1_RoundTrip ==
    LET n == Len(history) IN
    (/\ n >= 2
     /\ history[n - 1].op = "organize"
     /\ history[n].op = "reverse"
     /\ result = "ok"
     /\ history[n - 1].dirs = {Root})
        => files = history[n - 1].files

\* C1 witness: a round trip of two files that organize had moved away
C1_Witness ==
    /\ Len(history) = 2
    /\ history[1].op = "organize"
    /\ history[2].op = "reverse"
    /\ result = "ok"
    /\ history[1].dirs = {Root}
    /\ Cardinality(DOMAIN history[1].files) = 2
    /\ RootLevel(history[2].files) = {}

C3_FullDescent ==
    (Completed("reverse") /\ DistinctBaseNames(StartFiles)) =>
        /\ \A p \in DOMAIN StartFiles :
              /\ <<BaseName(p)>> \in DOMAIN files
              /\ files[<<BaseName(p)>>] = StartFiles[p]
        /\ \A q \in DOMAIN files : Len(q) = 1

\* C3 witness: a completed reverse pass on a tree with a file three folders
\* deep and a file at the root, where the root listing returned the file
\* moved into the root and spawned a task for it
C3_Witness ==
    /\ Completed("reverse")
    /\ DistinctBaseNames(StartFiles)
    /\ \E p \in DOMAIN StartFiles : Len(p) = 4
    /\ \E q \in DOMAIN StartFiles : Len(q) = 1
    /\ \E t \in Spawned : Len(t) = 1 /\ t \notin DOMAIN StartFiles

\* C4 as claimed: during and after Organize only the root is listed, only
\* files directly under the root are moved, every file that was in a
\* sub-directory at the start is at the same path, and every directory of
\* the start still exists.
C4_SubdirectoriesUntouched ==
    op = "organize" =>
        /\ \A t \in DOMAIN tasks : Len(t) <= 1
        /\ \A p \in DOMAIN StartFiles :
              Len(p) >= 2 => p \in DOMAIN files /\ files[p] = StartFiles[p]
        /\ StartDirs \subseteq dirs

\* C4 as amended: during and after Organize only the root is listed, only
\* files directly under the root are moved, every directory of the start
\* still exists, and every file that was in a sub-directory at the start is
\* at the same path, unless that path is the destination of a file that was
\* directly under the root, which then replaced it.
C4_SubdirectoriesUntouchedButDestinations ==
    op = "organize" =>
        /\ \A t \in DOMAIN tasks : Len(t) <= 1
        /\ \A p \in DOMAIN StartFiles :
              Len(p) >= 2 =>
                 /\ p \in DOMAIN files
                 /\ \/ files[p] = StartFiles[p]
                    \/ \E q \in RootLevel(StartFiles) :
                          /\ p = Append(BucketPathOf(StartFiles[q]), BaseName(q))
                          /\ files[p] = StartFiles[q]
        /\ StartDirs \subseteq dirs

\* C4 witness: Organize completed and moved a root file while a file in a
\* sub-directory of the start stayed where it was
C4_Witness ==
    /\ Completed("organize")
    /\ <<"subdir", "a">> \in DOMAIN StartFiles
    /\ <<"a">> \in DOMAIN StartFiles
    /\ <<"a">> \notin DOMAIN files
    /\ files[<<"subdir", "a">>] = StartFiles[<<"subdir", "a">>]

\* C7: on a root with no entries, and with no I/O call failing, Organize and
\* ReverseOrganize do not panic, spawn no task, create no folder and leave
\* the directory empty.
C7_EmptyDirectorySafe ==
    (Started /\ StartDirs = {Root} /\ StartFiles = <<>> /\ faults = MaxFaults) =>
        /\ result \in {"running", "ok"}
        /\ tasks[Root].pc \in {"open", "list", "join", "done"}
        /\ result = "ok" <=> tasks[Root].pc = "done"
        /\ Spawned = {}
        /\ dirs = {Root}
        /\ files = <<>>

\* C7 witness: both passes completed on the empty root, one after the other
C7_Witness ==
    /\ Len(history) = 2
    /\ history[1].op = "organize"
    /\ history[2].op = "reverse"
    /\ history[1].dirs = {Root} /\ history[1].files = <<>>
    /\ history[2].dirs = {Root} /\ history[2].files = <<>>
    /\ result = "ok"

FileSystemOrTasksChange ==
    dirs' # dirs \/ files' # files \/ DOMAIN tasks' # DOMAIN tasks

C10_ListingFailureFails ==
    (op = "reverse"
       /\ \E t \in DOMAIN tasks :
             tasks[t].error \in {"Failed to read directory", "Failed to read entry"})
        => result # "ok"

\* C10 witness: the listing of a directory three levels deep failed and
\* every enclosing call failed at its join, up to the call main() awaits
C10_Witness ==
    /\ op = "reverse"
    /\ result = "panic"
    /\ \E t \in DOMAIN tasks :
          /\ Len(t) = 3
          /\ tasks[t].error = "Failed to read directory"
          /\ \A i \in 0..2 : tasks[SubSeq(t, 1, i)].error = "Task failed"

\* C11: in every state of a ReverseOrganize, and after it, the set of
\* directories is the set of directories at its start: none is created and
\* none is removed, the folders it emptied included.
C11_DirectoriesLeftInPlace ==
    op = "reverse" => dirs = StartDirs

\* C11 witness: a completed reverse pass that emptied a week folder, which is
\* still there together with its month and year folders
C11_Witness ==
    /\ Completed("reverse")
    /\ \E p \in DOMAIN StartFiles :
          /\ Len(p) = 4
          /\ \A i \in 1..3 : SubSeq(p, 1, i) \in dirs
          /\ Children(Parent(p)) = {}
          /\ <<BaseName(p)>> \in DOMAIN files

\* the files of the start that share their base name with another file
Colliding ==
    {p \in DOMAIN StartFiles :
        \E q \in DOMAIN StartFiles \ {p} : BaseName(q) = BaseName(p)}

\* the identities of the files in the file map f
Identities(f) == {f[p] : p \in DOMAIN f}

\* the move task of p finishes its rename in this step
MoveCompletes(p) ==
    /\ p \in DOMAIN tasks
    /\ tasks[p].kind \in {"orgfile", "revfile"}
    /\ tasks[p].pc = "rename"
    /\ p \in DOMAIN tasks'
    /\ tasks'[p].pc = "done"

\* a completed reverse pass left one of two files of the same base name
\* directly under the root, under that name, and the other nowhere
OneOfTwoSurvives ==
    Completed("reverse") =>
        \A p \in Colliding :
            LET n == <<BaseName(p)>>
                same == {q \in DOMAIN StartFiles : BaseName(q) = BaseName(p)}
            IN  /\ n \in DOMAIN files
                /\ files[n] \in {StartFiles[q] : q \in same}
                /\ {q \in DOMAIN files : BaseName(q) = BaseName(p)} = {n}
                /\ Identities(files) \cap {StartFiles[q] : q \in same} = {files[n]}

\* C12 as claimed: when two files of the subtree share a base name,
\* ReverseOrganize completes with exactly one file of that name under the
\* root and the other lost, and either may be the survivor: the move task
\* of each of the two puts its file at root/<base name>, so that the file
\* moved last survives.
C12_LastMoveSurvives ==
    /\ []OneOfTwoSurvives
    /\ [][op = "reverse" =>
             \A p \in Colliding :
                 MoveCompletes(p) => files'[<<BaseName(p)>>] = StartFiles[p]]_vars

\* C12 as amended: ReverseOrganize completes with exactly one file of that
\* name under the root and the other lost. The move task of a file in a
\* sub-directory puts its file at root/<base name>, so that of two files in
\* sub-directories the one moved last survives; the move task of a file
\* directly under the root renames it onto itself and changes nothing, so
\* that a file directly under the root at the start is always the one lost.
C12_LastNestedMoveSurvives ==
    /\ []OneOfTwoSurvives
    /\ [][op = "reverse" =>
             \A p \in Colliding :
                 MoveCompletes(p) =>
                     IF Len(p) > 1
                     THEN files'[<<BaseName(p)>>] = StartFiles[p]
                     ELSE files' = files]_vars
    /\ [](Completed("reverse") =>
             \A p \in Colliding :
                 Len(p) = 1 => StartFiles[p] \notin Identities(files))

\* C12 witness: a completed reverse pass on two files "a" in sub-directories,
\* where the file of the week folder survived and the other is lost
C12_Witness ==
    /\ Completed("reverse")
    /\ \E p \in Colliding, q \in Colliding :
          /\ Len(p) = 4 /\ Len(q) = 2
          /\ files = (<<BaseName(p)>> :> StartFiles[p])
          /\ StartFiles[q] # StartFiles[p]

\* the tasks spawned for directory t or for a directory below it
Descendants(t) ==
    {k \in DOMAIN tasks : Len(k) > Len(t) /\ SubSeq(k, 1, Len(t)) = t}

\* C13: a call of organize or of reverse_organize_dir has returned normally
\* only when every task spawned for its directory or for a directory below
\* it has finished; the operation is complete only when every spawned task
\* has finished.
C13_JoinBarrier ==
    /\ \A t \in DOMAIN tasks :
          (tasks[t].kind \in {"organize", "revdir"} /\ tasks[t].pc = "done") =>
              \A k \in Descendants(t) : tasks[k].pc = "done"
    /\ result = "ok" => \A k \in Spawned : tasks[k].pc = "done"

\* C13 witness: the call for a directory of the reverse pass has returned
\* after the tasks below it, while the call for the root still waits
C13_Witness ==
    /\ op = "reverse"
    /\ result = "running"
    /\ tasks[Root].pc = "join"
    /\ \E t \in Spawned :
          /\ tasks[t].kind = "revdir"
          /\ tasks[t].pc = "done"
          /\ Cardinality(Descendants(t)) >= 3

\* the root files of the start that share their week folder with another one
SharingBucket ==
    {p \in RootLevel(StartFiles) :
        \E q \in RootLevel(StartFiles) \ {p} :
            BucketPathOf(StartFiles[q]) = BucketPathOf(StartFiles[p])}

\* no I/O call of the running (or last) operation has failed for a reason
\* outside the tree
NoFault == faults = history[Len(history)].faults

\* C14: when root files map to the same bucket path and no I/O call fails
\* for another reason, no task of these files fails in any interleaving: a
\* task whose year, month or week folder was made by another task goes on to
\* its rename, and when Organize has completed the files are in the same
\* week folder.
C14_SharedBucketCreation ==
    (op = "organize" /\ NoFault) =>
        /\ result # "panic"
        /\ \A p \in SharingBucket :
              /\ p \in DOMAIN tasks => tasks[p].pc # "panicked"
              /\ result = "ok" =>
                    /\ Append(BucketPathOf(StartFiles[p]), BaseName(p)) \in DOMAIN files
                    /\ files[Append(BucketPathOf(StartFiles[p]), BaseName(p))]
                           = StartFiles[p]

\* C14 witness: two tasks of files of one bucket are both at their folder
\* creation, and the year folder was made by one of them already
C14_Witness ==
    /\ op = "organize"
    /\ NoFault
    /\ Cardinality(SharingBucket) = 2
    /\ \A p \in SharingBucket : p \in DOMAIN tasks /\ tasks[p].pc = "mkdir"
    /\ \E d \in dirs \ StartDirs : Len(d) = 1

\* where Organize is to put the file that is at path p of the file map f
OrganizedPath(f, p) ==
    IF Len(p) = 1 THEN Append(BucketPathOf(f[p]), BaseName(p)) ELSE p

\* the one tree Organize may end with on the tree (d, f) of distinct base names
OrganizedFiles(f) ==
    [q \in {OrganizedPath(f, p) : p \in DOMAIN f} |->
        f[CHOOSE p \in DOMAIN f : OrganizedPath(f, p) = q]]
OrganizedDirs(d, f) ==
    d \cup UNION {Ancestors(OrganizedPath(f, p)) : p \in DOMAIN f}

\* the one tree ReverseOrganize may end with on the tree (d, f)
ReversedFiles(f) ==
    [q \in {<<BaseName(p)>> : p \in DOMAIN f} |->
        f[CHOOSE p \in DOMAIN f : BaseName(p) = q[1]]]

\* C15: on a tree whose files have pairwise distinct base names and with no
\* I/O call failing, the tree a completed Organize ends with, and the tree a
\* completed ReverseOrganize ends with, is a function of the tree at the
\* start alone: every interleaving of the tasks and the listing loops ends
\* with the same files at the same paths and the same directories.
C15_InterleavingIndependence ==
    (Started /\ result = "ok" /\ NoFault /\ DistinctBaseNames(StartFiles)) =>
        IF op = "organize"
        THEN /\ files = OrganizedFiles(StartFiles)
             /\ dirs = OrganizedDirs(StartDirs, StartFiles)
        ELSE /\ files = ReversedFiles(StartFiles)
             /\ dirs = StartDirs

\* C15 witness: a completed ReverseOrganize on two files of different week
\* folders, whose tasks and listings interleave in many ways
C15_Witness ==
    /\ Completed("reverse")
    /\ NoFault
    /\ DistinctBaseNames(StartFiles)
    /\ \E p \in DOMAIN StartFiles, q \in DOMAIN StartFiles :
          Len(p) = 4 /\ Len(q) = 4 /\ Parent(p) # Parent(q)
    /\ RootLevel(files) = DOMAIN files

\* the modification times of a second file, up to eight days after the first
LaterTimes == {h \in BucketTimes : h >= modified /\ h <= modified + 8 * HoursPerDay}

\* the local days d1 and d2 are in one Sunday-to-Saturday window and one month
SameWindow(d1, d2) == d1 - NumDaysFromSunday(d1) = d2 - NumDaysFromSunday(d2)
SameMonth(d1, d2) ==
    /\ CivilFromDays(d1).y = CivilFromDays(d2).y
    /\ CivilFromDays(d1).m = CivilFromDays(d2).m

\* C16: a file whose modification date is in the same Sunday-to-Saturday
\* window and the same calendar month as that of another file is put in the
\* same week folder, and a file whose modification date is exactly 7 days
\* later is put in another week folder.
C16_WeekGrouping ==
    bucket # <<>> =>
        \A h \in LaterTimes :
            LET d1 == ModifiedDay
                d2 == LocalDay(zone, h)
            IN  /\ (SameWindow(d1, d2) /\ SameMonth(d1, d2)) => Bucket(zone, h) = bucket
                /\ d2 = d1 + 7 => Bucket(zone, h) # bucket

\* where the task with id t is, if there is one
PcOf(t) == IF t \in DOMAIN tasks THEN tasks[t].pc ELSE "none"

\* C17: under fair scheduling of the tasks every Organize and every
\* ReverseOrganize that was started completes or aborts in the end, and
\* every listing loop of ReverseOrganize, that of the root included, comes
\* to its end or fails.
C17_Termination ==
    /\ (result = "running") ~> (result \in {"ok", "panic"})
    /\ \A t \in {Root, <<"subdir">>} :
          (op = "reverse" /\ result = "running" /\ PcOf(t) = "list")
             ~> (result = "panic" \/ PcOf(t) \in {"join", "panicked"})

\* C17 witness: ReverseOrganize completed after its root listing returned a
\* file that a task had moved into the root during the listing
C17_Witness ==
    /\ Completed("reverse")
    /\ NoFault
    /\ \E t \in Spawned :
          /\ tasks[t].kind = "revfile"
          /\ Len(t) = 1
          /\ t \notin DOMAIN StartFiles
          /\ \E p \in DOMAIN StartFiles : Len(p) > 1 /\ BaseName(p) = t[1]

\* the paths at which the file with identity id is
PathsOf(id) == {q \in DOMAIN files : files[q] = id}

\* no bucket path of a root file of the start held a file of its base name
DestinationsFree ==
    \A p \in RootLevel(StartFiles) :
        OrganizedPath(StartFiles, p) \notin DOMAIN StartFiles

\* C18: in every state of an Organize on a root whose destination paths
\* hold no file at the start, the partial state after a failure included,
\* every file of the start is at exactly one path: the path it had, or, for
\* a file directly under the root, root/<bucket>/<base name>.
C18_FileConservation ==
    (op = "organize" /\ DestinationsFree) =>
        \A p \in DOMAIN StartFiles :
            \/ PathsOf(StartFiles[p]) = {p}
            \/ /\ Len(p) = 1
               /\ PathsOf(StartFiles[p]) = {OrganizedPath(StartFiles, p)}

\* C18 witness: Organize has failed at the rename of one file after it had
\* moved the other
C18_Witness ==
    /\ op = "organize"
    /\ result = "panic"
    /\ DestinationsFree
    /\ \E p \in RootLevel(StartFiles), q \in RootLevel(StartFiles) :
          /\ PathsOf(StartFiles[p]) = {p}
          /\ p \in DOMAIN tasks
          /\ tasks[p].error = "Failed to move file"
          /\ PathsOf(StartFiles[q]) = {OrganizedPath(StartFiles, q)}

\* the running (or last) operation is pass o and follows a completed pass o
SecondRun(o) ==
    LET n == Len(history) IN
    n >= 2 /\ history[n].op = o /\ history[n - 1].op = o

\* no I/O call of the pass before the running one failed
FirstRunNoFault ==
    LET n == Len(history) IN history[n].faults = history[n - 1].faults

\* the tree is the tree of the start of the running operation
TreeUnchanged == files = StartFiles /\ dirs = StartDirs

\* the second ReverseOrganize moves nothing: its move tasks are those of the
\* files directly under the root, renamed onto themselves
ReverseAgainChangesNothing ==
    SecondRun("reverse") =>
        /\ TreeUnchanged
        /\ \A t \in Spawned :
              tasks[t].kind = "revfile" => (Len(t) = 1 /\ Destination(t) = t)

C20_ConstantTarget ==
    op = "reverse" =>
        \A t \in DOMAIN tasks :
            /\ tasks[t].target = Root
            /\ tasks[t].kind = "revfile" => Destination(t) = <<BaseName(t)>>

\* C20 witness: the move task of a file in a week folder, spawned by the
\* call for that folder three levels below the root, is about to rename
C20_Witness ==
    /\ op = "reverse"
    /\ \E t \in Spawned :
          /\ Len(t) = 4
          /\ tasks[t].kind = "revfile"
          /\ tasks[t].pc = "rename"
          /\ tasks[Parent(t)].kind = "revdir"
          /\ tasks[t].target = Root

====
